---- MODULE Spec2Model ----
(***************************************************************************)
(* SmartAcc Analyst: the upload -> encode -> request -> parse -> render    *)
(* pipeline of App.tsx, FileUpload.tsx (with the Dashboard it contains)    *)
(* and geminiService.ts, as one state machine.                             *)
(*                                                                         *)
(* Strings are modelled as sequences of tokens, so that trimming, prefix   *)
(* and suffix tests, regular-expression replacement and concatenation are  *)
(* computed and not assumed.  The JavaScript run-to-completion rule is     *)
(* kept: one action is one task (event handler, timer callback, promise    *)
(* continuation), and a pending promise continuation runs before any       *)
(* timer or user event.                                                    *)
(***************************************************************************)
EXTENDS Integers, Sequences, FiniteSets, TLC

\* Longest response text, in tokens.
MaxTextLen == 4

----------------------------------------------------------------------------
\* AppState (geminiService.ts:177-182)
UPLOAD == "UPLOAD"
ANALYZING == "ANALYZING"
RESULT == "RESULT"
ERROR == "ERROR"
AppState == {UPLOAD, ANALYZING, RESULT, ERROR}

----------------------------------------------------------------------------
\* Response text.  "FENCE" is the code-fence marker (three backticks), "json"
\* the letters json (the language tag after a fence, and no JSON anywhere),
\* " " one whitespace character and "V" the serialisation of one complete
\* JSON value (the value itself travels beside the text).
FENCE == "FENCE"
WS == " "
TextTokens == {FENCE, "json", WS, "V"}
Texts == UNION {[1..n -> TextTokens] : n \in 0..MaxTextLen}

Min(a, b) == IF a < b THEN a ELSE b

RECURSIVE DropLeadingWs(_)
\* the \s* that follows a matched prefix
DropLeadingWs(s) ==
  IF s # <<>> /\ Head(s) = WS THEN DropLeadingWs(Tail(s)) ELSE s

RECURSIVE DropTrailingWs(_)
\* the \s* that precedes a matched suffix
DropTrailingWs(s) ==
  IF s # <<>> /\ s[Len(s)] = WS
    THEN DropTrailingWs(SubSeq(s, 1, Len(s) - 1))
    ELSE s

\* String.prototype.trim
Trim(s) == DropTrailingWs(DropLeadingWs(s))

\* .replace(/^FENCEjson\s*/, '')
StripJsonFence(s) ==
  IF Len(s) >= 2 /\ s[1] = FENCE /\ s[2] = "json"
    THEN DropLeadingWs(SubSeq(s, 3, Len(s)))
    ELSE s

\* .replace(/^FENCE\s*/, '')
StripOpenFence(s) ==
  IF s # <<>> /\ s[1] = FENCE THEN DropLeadingWs(Tail(s)) ELSE s

\* StripCloseFence with the pattern /FENCE$/: whitespace before the fence stays.
StripCloseFenceKeepsWs(s) ==
  IF s # <<>> /\ s[Len(s)] = FENCE THEN SubSeq(s, 1, Len(s) - 1) ELSE s

\* .replace(/\s*FENCE$/, '')
StripCloseFence(s) ==
  IF s # <<>> /\ s[Len(s)] = FENCE
    THEN DropTrailingWs(SubSeq(s, 1, Len(s) - 1))
    ELSE s

\* cleanText of analyzeFinancialData
cleanText(text) ==
  StripCloseFence(StripOpenFence(StripJsonFence(Trim(text))))

\* JSON.parse accepts exactly one value with optional surrounding whitespace.
JsonParses(s) == Trim(s) = <<"V">>

----------------------------------------------------------------------------
\* AnalysisResult values as they come out of JSON.parse: nothing is checked,
\* so a value is JSON null or an object that may lack collection keys and
\* may hold any string where an enumeration is expected.
CollectionKeys ==
  {"ratios", "departments", "significantChanges", "topHighItems", "topLowItems"}

RatioStatus == {"good", "warning", "critical"}
ChangeTrend == {"increase", "decrease"}

\* JavaScript null
null ==
  [isNull |-> TRUE, keys |-> {}, ratios |-> <<>>, significantChanges |-> <<>>]

RatioLists == {<<>>, <<[status |-> "good"]>>, <<[status |-> "unknown"]>>}

\* relatedDepartment is optional: <<>> when the key is absent
ChangeLists ==
  { <<>>,
    <<[trend |-> "increase", relatedDepartment |-> <<>>],
      [trend |-> "decrease", relatedDepartment |-> <<"General">>]>>,
    <<[trend |-> "sideways", relatedDepartment |-> <<"General">>]>> }

\* The key sets tried: all five collections, one of them missing, none.
KeySets ==
  {CollectionKeys, {}} \cup {CollectionKeys \ {k} : k \in CollectionKeys}

JsonObjects ==
  { o \in [isNull : {FALSE}, keys : KeySets,
           ratios : RatioLists, significantChanges : ChangeLists] :
      /\ o.ratios # <<>> => "ratios" \in o.keys
      /\ o.significantChanges # <<>> => "significantChanges" \in o.keys }

JsonValues == {null} \cup JsonObjects

\* JavaScript truthiness of a parsed value
Truthy(v) == ~v.isNull

----------------------------------------------------------------------------
\* Error messages are sequences of pieces; '' is the empty sequence.
NoApiKeyMessage == <<"NO_API_KEY">>
AnalysisErrorPrefix == <<"ANALYSIS_ERROR: ">>
NoResponseMessage == <<"NO_RESPONSE_FROM_AI">>
SyntaxErrorMessage == <<"SyntaxError">>
UnknownErrorMessage == <<"UNKNOWN_ERROR">>

\* What a transport failure rejects with: an Error, or a value that is none.
TransportErrors ==
  { [isError |-> TRUE, message |-> <<"fetch failed">>],
    [isError |-> FALSE, message |-> <<"503">>] }

\* throw new Error(message)
NewError(message) == [isError |-> TRUE, message |-> message]

\* Rethrow without the prefix: the underlying message alone.
RethrowBare(error) == NewError(error.message)

\* geminiService.ts:136-139: the catch block of analyzeFinancialData.  Both
\* arms of the conditional yield the error's text.
Rethrow(error) == NewError(AnalysisErrorPrefix \o error.message)

\* HandleResponse with the parse failure swallowed: the result is null.
HandleResponseLenient(text, value) ==
  IF text # <<>>
    THEN [ok |-> TRUE,
          value |-> IF JsonParses(cleanText(text)) THEN value ELSE null,
          error |-> NewError(<<>>)]
    ELSE [ok |-> FALSE, value |-> null,
          error |-> Rethrow(NewError(NoResponseMessage))]

\* geminiService.ts:127-135: what the try block does with a response whose
\* text is text and whose V token serialises value.
HandleResponse(text, value) ==
  IF text # <<>>
    THEN IF JsonParses(cleanText(text))
           THEN [ok |-> TRUE, value |-> value, error |-> NewError(<<>>)]
           ELSE [ok |-> FALSE, value |-> null,
                 error |-> Rethrow(NewError(SyntaxErrorMessage))]
    ELSE [ok |-> FALSE, value |-> null,
          error |-> Rethrow(NewError(NoResponseMessage))]

\* geminiService.ts:16-18
CredentialMissing(key) == key = <<>>

\* The response texts of the client specification: long enough for a tagged
\* fenced value with whitespace beside it.
ClientTexts == UNION {[1..n -> TextTokens] : n \in 0..(MaxTextLen + 1)}

\* The values a response text can carry: only a text that parses yields one.
ValuesOf(text) ==
  IF JsonParses(cleanText(text)) THEN JsonValues ELSE {null}

----------------------------------------------------------------------------
\* Files the user can select.  A name is <<stem, extension>> and a content
\* type a sequence of fragments, so that endsWith and includes are computed.
FileNames ==
  {<<"report", ".xlsx">>, <<"report", ".CSV">>, <<"statement", ".pdf">>}

FileTypes == {<<>>, <<"text/csv">>, <<"application/pdf">>}

\* The wider choice of names and types of the ingestion specification.
AllFileNames ==
  FileNames \cup
    { <<"report", ".xls">>, <<"report", ".csv">>, <<"report", ".XLSX">>,
      <<"notes", ".txt">>, <<"notes">> }

AllFileTypes ==
  FileTypes \cup
    { <<"text/plain">>, <<"application/vnd.ms-", "excel">>,
      <<"application/vnd.openxmlformats-officedocument.", "spreadsheet",
        "ml.sheet">> }

\* readable: the FileReader delivers the bytes; corrupt: the bytes are no
\* workbook the xlsx library can read.
Files ==
  [name : FileNames, type : FileTypes, readable : BOOLEAN, corrupt : BOOLEAN]

AllFiles ==
  [name : AllFileNames, type : AllFileTypes, readable : BOOLEAN,
   corrupt : BOOLEAN]

\* String.prototype.endsWith
EndsWith(str, suffix) == str # <<>> /\ str[Len(str)] = suffix

\* String.prototype.includes
Includes(str, part) == \E i \in 1..Len(str) : str[i] = part

\* isSpreadsheet without the test for .xls
isSpreadsheetNoXls(file) ==
  \/ EndsWith(file.name, ".xlsx")
  \/ EndsWith(file.name, ".csv")
  \/ Includes(file.type, "spreadsheet")
  \/ Includes(file.type, "excel")
  \/ file.type = <<"text/csv">>

\* FileUpload.tsx:35-40
isSpreadsheet(file) ==
  \/ EndsWith(file.name, ".xlsx")
  \/ EndsWith(file.name, ".xls")
  \/ EndsWith(file.name, ".csv")
  \/ Includes(file.type, "spreadsheet")
  \/ Includes(file.type, "excel")
  \/ file.type = <<"text/csv">>

\* FileUpload.tsx:53-61: the tabular path hands over the CSV of sheet one.
TabularPayload(file) == [data |-> "csv", mimeType |-> <<"text/csv">>]

\* OpaquePayload without the fall-back to text/plain.
OpaquePayloadNoFallback(file) == [data |-> "bytes", mimeType |-> file.type]

\* FileUpload.tsx:70-78: the opaque path hands over the bytes as they are.
OpaquePayload(file) ==
  [data |-> "bytes",
   mimeType |-> IF file.type # <<>> THEN file.type ELSE <<"text/plain">>]

----------------------------------------------------------------------------
VARIABLES
  state,             \* App: useState<AppState>
  analysisData,      \* App: useState<AnalysisResult | null>
  errorMessage,      \* App: useState<string>
  analysisProgress,  \* App: useState(0)
  apiKey,            \* geminiService: import.meta.env.VITE_API_KEY || ''
  pendingRequests,   \* generateContent calls in flight (their inline data)
  rejections,        \* rejected analyzeFinancialData promises not yet awaited
  progressIntervals, \* live setInterval handles of handleFileUpload
  resultTimers,      \* pending setTimeout(..., 500) callbacks and their result
  networkCalls,      \* generateContent calls issued by the latest invocation
  responseText,      \* history: the response text behind the view on display
  rootMounted,       \* FALSE once a render threw and React removed the tree
  fuIsProcessing,    \* FileUpload: useState(false)
  fuProgress,        \* FileUpload: useState(0)
  fuIntervalOn,      \* FileUpload: the interval of the progress effect is set
  fuRenderPending,   \* FileUpload: a state update awaits its render
  fuDelayTimers,     \* FileUpload: pending setTimeout(..., 800) callbacks
  fuReaders,         \* FileUpload: FileReaders that are reading
  fuSendTimers,      \* FileUpload: pending setTimeout(..., 500) callbacks
  selectedDept       \* Dashboard: useState<string>('All')

appVars == <<state, analysisData, errorMessage, analysisProgress>>
clientVars ==
  <<apiKey, pendingRequests, rejections, progressIntervals, resultTimers,
    networkCalls, responseText, rootMounted>>
fuState == <<fuIsProcessing, fuProgress, fuIntervalOn, fuRenderPending>>
fuTasks == <<fuDelayTimers, fuReaders, fuSendTimers>>
dashVars == <<selectedDept>>
vars == <<appVars, clientVars, fuState, fuTasks, dashVars>>

ApiKeys == {<<>>, <<"key">>}

Init ==
  /\ state = UPLOAD
  /\ analysisData = null
  /\ errorMessage = <<>>
  /\ analysisProgress = 0
  /\ apiKey \in ApiKeys
  /\ pendingRequests = <<>>
  /\ rejections = <<>>
  /\ progressIntervals = 0
  /\ resultTimers = <<>>
  /\ networkCalls = 0
  /\ responseText = <<>>
  /\ rootMounted = TRUE
  /\ fuIsProcessing = FALSE
  /\ fuProgress = 0
  /\ fuIntervalOn = FALSE
  /\ fuRenderPending = FALSE
  /\ fuDelayTimers = <<>>
  /\ fuReaders = <<>>
  /\ fuSendTimers = <<>>
  /\ selectedDept = "All"

\* A promise continuation is queued: it runs before any timer or event.
MicrotaskPending == rejections # <<>>

\* App.tsx:93-108: the upload widget is rendered in UPLOAD only.
FileUploadMounted == rootMounted /\ state = UPLOAD

----------------------------------------------------------------------------
\* The upload widget (FileUpload.tsx:10-91)

\* FileUpload.tsx:16-24: what the effect leaves set after a render.
ProgressEffect(isProcessing, progress) == isProcessing /\ progress < 90

\* FileInputRendered with the input left in place while processing.
FileInputAlwaysRendered == FileUploadMounted

\* FileUpload.tsx:107-114: the file input is rendered while not processing.
FileInputRendered == FileUploadMounted /\ ~fuIsProcessing

\* FileUpload.tsx:26-42: a file is selected.  The change event is a discrete
\* event, so the render and the effect follow in the same task.
handleFileChange(file) ==
  /\ ~MicrotaskPending
  /\ FileInputRendered
  /\ fuIsProcessing' = TRUE
  /\ fuProgress' = 10
  /\ fuIntervalOn' = ProgressEffect(TRUE, 10)
  /\ fuRenderPending' = FALSE
  /\ fuDelayTimers' =
       Append(fuDelayTimers, [file |-> file, tabular |-> isSpreadsheet(file)])
  /\ UNCHANGED <<appVars, clientVars, dashVars, fuReaders, fuSendTimers>>

\* FileUpload.tsx:42-45, 64-68, 81: the 800 ms delay is over, a reader starts.
FuStartRead ==
  /\ ~MicrotaskPending
  /\ fuDelayTimers # <<>>
  /\ fuDelayTimers' = Tail(fuDelayTimers)
  /\ fuReaders' = Append(fuReaders, Head(fuDelayTimers))
  /\ UNCHANGED <<appVars, clientVars, dashVars, fuState, fuSendTimers>>

\* FuReaderLoaded with the workbook error swallowed: the file is sent anyway.
FuReaderLoadedIgnoresCorrupt ==
  /\ ~MicrotaskPending
  /\ fuReaders # <<>>
  /\ Head(fuReaders).file.readable
  /\ fuReaders' = Tail(fuReaders)
  /\ LET job == Head(fuReaders) IN
       /\ fuProgress' = 100
       /\ fuRenderPending' = FileUploadMounted
       /\ fuSendTimers' =
            Append(fuSendTimers,
                   IF job.tabular THEN TabularPayload(job.file)
                                  ELSE OpaquePayload(job.file))
       /\ UNCHANGED <<fuIsProcessing, fuIntervalOn>>
  /\ UNCHANGED <<appVars, clientVars, dashVars, fuDelayTimers>>

\* FileUpload.tsx:46-63, 69-80: reader.onload.  A workbook that cannot be
\* read makes the callback throw before it sets anything.
FuReaderLoaded ==
  /\ ~MicrotaskPending
  /\ fuReaders # <<>>
  /\ Head(fuReaders).file.readable
  /\ fuReaders' = Tail(fuReaders)
  /\ LET job == Head(fuReaders) IN
       IF job.tabular /\ job.file.corrupt
         THEN UNCHANGED <<fuState, fuSendTimers>>
         ELSE /\ fuProgress' = 100
              /\ fuRenderPending' = FileUploadMounted
              /\ fuSendTimers' =
                   Append(fuSendTimers,
                          IF job.tabular THEN TabularPayload(job.file)
                                         ELSE OpaquePayload(job.file))
              /\ UNCHANGED <<fuIsProcessing, fuIntervalOn>>
  /\ UNCHANGED <<appVars, clientVars, dashVars, fuDelayTimers>>

\* The read fails: no onerror handler is installed, so nothing runs.
FuReaderFailed ==
  /\ ~MicrotaskPending
  /\ fuReaders # <<>>
  /\ ~Head(fuReaders).file.readable
  /\ fuReaders' = Tail(fuReaders)
  /\ UNCHANGED <<appVars, clientVars, dashVars, fuState, fuDelayTimers, fuSendTimers>>

\* FileUpload.tsx:19-21: one tick of the simulated progress, with
\* r = Math.floor(Math.random() * 10).
FuProgressTick(r) ==
  /\ ~MicrotaskPending
  /\ fuIntervalOn
  /\ fuProgress' = Min(fuProgress + r, 90)
  /\ fuRenderPending' = TRUE
  /\ UNCHANGED <<appVars, clientVars, dashVars, fuIsProcessing, fuIntervalOn, fuTasks>>

\* The widget renders after an update from a timer or reader callback; the
\* effect's cleanup and set-up run (FileUpload.tsx:16-24).
FuRender ==
  /\ ~MicrotaskPending
  /\ fuRenderPending
  /\ fuRenderPending' = FALSE
  /\ fuIntervalOn' = ProgressEffect(fuIsProcessing, fuProgress)
  /\ UNCHANGED <<appVars, clientVars, dashVars, fuIsProcessing, fuProgress, fuTasks>>

----------------------------------------------------------------------------
\* The application state machine (App.tsx:9-53)

\* ProgressUpdater without the stop at 90.
ProgressUpdaterUncapped(prev) == prev + 2

\* App.tsx:23-26: the updater of one tick of the analysis progress.
ProgressUpdater(prev) == IF prev >= 90 THEN prev ELSE prev + 2

\* analyzeFinancialData without the credential check.
analyzeFinancialDataUnchecked(file) ==
  /\ pendingRequests' = Append(pendingRequests, file)
  /\ networkCalls' = 1
  /\ UNCHANGED rejections

\* geminiService.ts:15-18, 51-125: analyzeFinancialData up to its await.
\* Without a credential the promise is rejected at once and no request is
\* made; otherwise one generateContent call goes out.
analyzeFinancialData(file) ==
  IF CredentialMissing(apiKey)
    THEN /\ rejections' = Append(rejections, NewError(NoApiKeyMessage))
         /\ networkCalls' = 0
         /\ UNCHANGED pendingRequests
    ELSE /\ pendingRequests' = Append(pendingRequests, file)
         /\ networkCalls' = 1
         /\ UNCHANGED rejections

\* App.tsx:17-30: handleFileUpload up to its await.
handleFileUpload(file) ==
  /\ state' = ANALYZING
  /\ analysisProgress' = 0
  /\ progressIntervals' = progressIntervals + 1
  /\ analyzeFinancialData(file)
  /\ responseText' = <<>>
  /\ UNCHANGED <<analysisData, errorMessage, apiKey, resultTimers, rootMounted,
                 dashVars>>

\* OnAnalysisResolved without the setTimeout that stores and shows the result.
OnAnalysisResolvedNoTimer(result) ==
  /\ progressIntervals' = progressIntervals - 1
  /\ analysisProgress' = 100
  /\ UNCHANGED <<state, analysisData, errorMessage, resultTimers>>

\* OnAnalysisResolved without setAnalysisProgress(100).
OnAnalysisResolvedNoFinalProgress(result) ==
  /\ progressIntervals' = progressIntervals - 1
  /\ resultTimers' = Append(resultTimers, result)
  /\ UNCHANGED <<state, analysisData, errorMessage, analysisProgress>>

\* App.tsx:31-38: handleFileUpload after the await returned a result.
OnAnalysisResolved(result) ==
  /\ progressIntervals' = progressIntervals - 1
  /\ analysisProgress' = 100
  /\ resultTimers' = Append(resultTimers, result)
  /\ UNCHANGED <<state, analysisData, errorMessage>>

\* OnAnalysisRejected without setState(AppState.ERROR).
OnAnalysisRejectedNoErrorState(error) ==
  /\ progressIntervals' = progressIntervals - 1
  /\ errorMessage' =
       IF error.isError THEN error.message ELSE UnknownErrorMessage
  /\ UNCHANGED <<state, analysisProgress, analysisData, resultTimers>>

\* OnAnalysisRejected without clearInterval(progressInterval).
OnAnalysisRejectedNoClear(error) ==
  /\ errorMessage' =
       IF error.isError THEN error.message ELSE UnknownErrorMessage
  /\ state' = ERROR
  /\ UNCHANGED <<progressIntervals, analysisProgress, analysisData,
                 resultTimers>>

\* App.tsx:40-45: handleFileUpload after the await threw.
OnAnalysisRejected(error) ==
  /\ progressIntervals' = progressIntervals - 1
  /\ errorMessage' =
       IF error.isError THEN error.message ELSE UnknownErrorMessage
  /\ state' = ERROR
  /\ UNCHANGED <<analysisProgress, analysisData, resultTimers>>

\* FileUpload.tsx:60-62, 77-79 with App.tsx:106: the 500 ms delay is over and
\* onFileUpload is called; App leaves UPLOAD, which unmounts the widget.
FuSendFile ==
  /\ ~MicrotaskPending
  /\ fuSendTimers # <<>>
  /\ fuSendTimers' = Tail(fuSendTimers)
  /\ handleFileUpload(Head(fuSendTimers))
  /\ fuIsProcessing' = FALSE
  /\ fuProgress' = 0
  /\ fuIntervalOn' = FALSE
  /\ fuRenderPending' = FALSE
  /\ UNCHANGED <<fuDelayTimers, fuReaders>>

\* App.tsx:22-27: one tick of the analysis progress interval.
AnalysisProgressTick ==
  /\ ~MicrotaskPending
  /\ progressIntervals > 0
  /\ analysisProgress' = ProgressUpdater(analysisProgress)
  /\ analysisProgress' # analysisProgress
  /\ UNCHANGED <<state, analysisData, errorMessage, clientVars, fuState, fuTasks,
                 dashVars>>

\* geminiService.ts:16-18 with App.tsx:40-45: the rejection for the missing
\* credential reaches the catch block of handleFileUpload.
CredentialRejected ==
  /\ rejections # <<>>
  /\ rejections' = Tail(rejections)
  /\ OnAnalysisRejected(Head(rejections))
  /\ UNCHANGED <<apiKey, pendingRequests, networkCalls, responseText,
                 rootMounted, fuState, fuTasks, dashVars>>

\* geminiService.ts:127-139 with App.tsx:31-45: the request is answered.
ResponseArrives(text, value) ==
  /\ ~MicrotaskPending
  /\ pendingRequests # <<>>
  /\ pendingRequests' = Tail(pendingRequests)
  /\ responseText' = text
  /\ LET outcome == HandleResponse(text, value) IN
       IF outcome.ok
         THEN OnAnalysisResolved(outcome.value)
         ELSE OnAnalysisRejected(outcome.error)
  /\ UNCHANGED <<apiKey, rejections, networkCalls, rootMounted, fuState, fuTasks,
                 dashVars>>

\* geminiService.ts:64, 136-139 with App.tsx:40-45: the request fails.
TransportFails(error) ==
  /\ ~MicrotaskPending
  /\ pendingRequests # <<>>
  /\ pendingRequests' = Tail(pendingRequests)
  /\ OnAnalysisRejected(Rethrow(error))
  /\ UNCHANGED <<apiKey, rejections, networkCalls, responseText, rootMounted,
                 fuState, fuTasks, dashVars>>

\* FileUpload.tsx:520: of all reads of data, only data.ratios.map is neither
\* guarded nor optional; it throws when the key is absent.
DashboardRenders(data) == "ratios" \in data.keys

\* App.tsx:151-153: what the RESULT view renders.
ResultViewRenders(data) == Truthy(data) => DashboardRenders(data)

\* FileUpload.tsx:299-310: the options of the department selector.  The
\* sorted array is kept as the set of its members; the objects of the model
\* name no departments of their own.
availableDepartments(data) ==
  {"All"} \cup
    IF "significantChanges" \in data.keys
      THEN {data.significantChanges[i].relatedDepartment[1] :
              i \in {j \in 1..Len(data.significantChanges) :
                       data.significantChanges[j].relatedDepartment # <<>>}}
      ELSE {}

\* FileUpload.tsx:313-320
filteredChanges(data, dept) ==
  IF "significantChanges" \notin data.keys THEN <<>>
  ELSE IF dept = "All" THEN data.significantChanges
  ELSE LET Keep(item) ==
             \/ item.relatedDepartment = <<dept>>
             \/ item.relatedDepartment = <<"General">> /\ dept = "All"
       IN SelectSeq(data.significantChanges, Keep)

\* FileUpload.tsx:596: the department shown in the row of an entry.
DepartmentLabel(item) ==
  IF item.relatedDepartment # <<>> THEN item.relatedDepartment[1] ELSE "General"

\* App.tsx:151-153: the Dashboard is on display.
DashboardMounted == rootMounted /\ state = RESULT /\ Truthy(analysisData)

\* FileUpload.tsx:479-486: the user picks another department.
SelectDepartment(dept) ==
  /\ ~MicrotaskPending
  /\ DashboardMounted
  /\ dept \in availableDepartments(analysisData)
  /\ dept # selectedDept
  /\ selectedDept' = dept
  /\ UNCHANGED <<appVars, clientVars, fuState, fuTasks>>

\* App.tsx:35-38: the 500 ms delay is over; the result is stored and shown.
ShowResult ==
  /\ ~MicrotaskPending
  /\ resultTimers # <<>>
  /\ resultTimers' = Tail(resultTimers)
  /\ analysisData' = Head(resultTimers)
  /\ state' = RESULT
  /\ rootMounted' = (rootMounted /\ ResultViewRenders(Head(resultTimers)))
  /\ selectedDept' = "All"
  /\ UNCHANGED <<errorMessage, analysisProgress, apiKey, pendingRequests,
                 rejections, progressIntervals, networkCalls, responseText,
                 fuState, fuTasks>>

\* ResetAvailable with a reset button in every view.
ResetAvailableEverywhere == rootMounted

\* ResetAvailable with a cancel button in the ANALYZING view as well.
ResetAvailableWhileAnalyzing ==
  /\ rootMounted
  /\ \/ state \in {ERROR, ANALYZING}
     \/ state = RESULT /\ Truthy(analysisData)

\* App.tsx:135-153, FileUpload.tsx:491: where a reset button is rendered.
ResetAvailable ==
  /\ rootMounted
  /\ \/ state = ERROR
     \/ state = RESULT /\ Truthy(analysisData)

\* handleReset without setAnalysisData(null).
handleResetKeepsData ==
  /\ ~MicrotaskPending
  /\ ResetAvailable
  /\ state' = UPLOAD
  /\ errorMessage' = <<>>
  /\ analysisProgress' = 0
  /\ responseText' = <<>>
  /\ selectedDept' = "All"
  /\ UNCHANGED <<analysisData, apiKey, pendingRequests, rejections,
                 progressIntervals, resultTimers, networkCalls, rootMounted,
                 fuState, fuTasks>>

\* handleReset without setErrorMessage('').
handleResetKeepsError ==
  /\ ~MicrotaskPending
  /\ ResetAvailable
  /\ state' = UPLOAD
  /\ analysisData' = null
  /\ analysisProgress' = 0
  /\ responseText' = <<>>
  /\ selectedDept' = "All"
  /\ UNCHANGED <<errorMessage, apiKey, pendingRequests, rejections,
                 progressIntervals, resultTimers, networkCalls, rootMounted,
                 fuState, fuTasks>>

\* App.tsx:48-53
handleReset ==
  /\ ~MicrotaskPending
  /\ ResetAvailable
  /\ state' = UPLOAD
  /\ analysisData' = null
  /\ errorMessage' = <<>>
  /\ analysisProgress' = 0
  /\ responseText' = <<>>
  /\ selectedDept' = "All"
  /\ UNCHANGED <<apiKey, pendingRequests, rejections, progressIntervals,
                 resultTimers, networkCalls, rootMounted, fuState, fuTasks>>

----------------------------------------------------------------------------
Next ==
  \/ \E file \in Files : handleFileChange(file)
  \/ FuStartRead
  \/ FuReaderLoaded
  \/ FuReaderFailed
  \/ \E r \in 0..9 : FuProgressTick(r)
  \/ FuRender
  \/ FuSendFile
  \/ AnalysisProgressTick
  \/ CredentialRejected
  \/ \E text \in Texts : \E value \in ValuesOf(text) : ResponseArrives(text, value)
  \/ \E error \in TransportErrors : TransportFails(error)
  \/ ShowResult
  \/ \E dept \in {"All", "General"} : SelectDepartment(dept)
  \/ handleReset

Spec == Init /\ [][Next]_vars

\* Timers that are due fire, and a queued promise continuation runs: the
\* 500 ms timer of the result, the 500 ms progress interval and the rejection
\* for the missing credential.  Nothing obliges the request to settle.
SpecFair ==
  /\ Spec
  /\ WF_vars(ShowResult)
  /\ WF_vars(AnalysisProgressTick)
  /\ WF_vars(CredentialRejected)

\* The ingestion of one file, from its selection to the call of onFileUpload,
\* over the wider set of files.  The cosmetic progress interval, which only
\* moves fuProgress, is left to Spec.
NextIngest ==
  \/ \E file \in AllFiles : handleFileChange(file)
  \/ FuStartRead
  \/ FuReaderLoaded
  \/ FuReaderFailed
  \/ FuSendFile

SpecIngest == Init /\ [][NextIngest]_vars

\* The analysis client answering one request, over the longer response texts:
\* a file that ingests without failure is sent with the credential present,
\* the response arrives, and the result is shown.
ClientFiles == {file \in Files : file.readable /\ ~file.corrupt}

InitClient == Init /\ ~CredentialMissing(apiKey)

NextClient ==
  \/ \E file \in ClientFiles : handleFileChange(file)
  \/ FuStartRead
  \/ FuReaderLoaded
  \/ FuSendFile
  \/ \E text \in ClientTexts :
       \E value \in ValuesOf(text) : ResponseArrives(text, value)
  \/ ShowResult

SpecClient == InitClient /\ [][NextClient]_vars

TypeOK ==
  /\ state \in AppState
  /\ analysisData \in JsonValues
  /\ analysisProgress \in 0..100
  /\ fuProgress \in 0..100
  /\ progressIntervals \in Nat
  /\ networkCalls \in 0..1
  /\ selectedDept \in {"All", "General"}

----------------------------------------------------------------------------
\* Steps the properties speak about.

\* An analysis request settles: a response or a transport failure arrives, or
\* the rejection for the missing credential is delivered.
RequestSettles ==
  \/ Len(pendingRequests') < Len(pendingRequests)
  \/ Len(rejections') < Len(rejections)

\* The request is still unsettled.
RequestPending == pendingRequests # <<>> \/ rejections # <<>>

\* onFileUpload is called, that is, handleFileUpload is invoked.
UploadInvoked == Len(fuSendTimers') < Len(fuSendTimers)

\* Everything the reset has to clear is clear.
NothingHeld ==
  analysisData = null /\ errorMessage = <<>> /\ analysisProgress = 0

----------------------------------------------------------------------------
\* C1: the application starts in Upload and its state changes only by
\* Upload -> Analyzing (progress 0), Analyzing -> Analyzing (a tick of +2
\* below 90, or progress forced to 100), Analyzing -> Result,
\* Analyzing -> Error, Result -> Upload and Error -> Upload.
C1_Step ==
  \/ state # ANALYZING /\ state' = state
  \/ state = UPLOAD /\ state' = ANALYZING /\ analysisProgress' = 0
  \/ /\ state = ANALYZING /\ state' = ANALYZING
     /\ \/ analysisProgress' = analysisProgress
        \/ analysisProgress < 90 /\ analysisProgress' = analysisProgress + 2
        \/ analysisProgress' = 100
  \/ state = ANALYZING /\ state' \in {RESULT, ERROR}
  \/ state \in {RESULT, ERROR} /\ state' = UPLOAD

C1_OnlyListedTransitions == (state = UPLOAD) /\ [][C1_Step]_vars

C1_Witness == state = RESULT /\ Truthy(analysisData) /\ rootMounted

\* C2: Result is entered only from Analyzing with progress 100 and after the
\* request resolved with a parseable response; progress 100 is never shown
\* while the request is pending.
C2_EnterResult ==
  (state # RESULT /\ state' = RESULT) =>
    /\ state = ANALYZING
    /\ analysisProgress = 100
    /\ ~RequestPending
    /\ JsonParses(cleanText(responseText))

C2_ResultOnlyAfterResolveAndFullProgress ==
  /\ [](analysisProgress = 100 => ~RequestPending)
  /\ [][C2_EnterResult]_vars

C2_Witness ==
  state = ANALYZING /\ analysisProgress = 100 /\ resultTimers # <<>>

\* C3: a failed analysis goes from Analyzing straight to Error at whatever
\* progress it had, with the message set; in Error no result is held or
\* scheduled, and Error is left only for Upload.
C3_FailureStep ==
  (RequestSettles /\ resultTimers' = resultTimers) =>
    /\ state = ANALYZING
    /\ state' = ERROR
    /\ errorMessage' # <<>>
    /\ analysisData' = null
    /\ analysisProgress' = analysisProgress

C3_FailureGoesToError ==
  /\ [](state = ERROR =>
          analysisData = null /\ errorMessage # <<>> /\ resultTimers = <<>>)
  /\ [][C3_FailureStep]_vars
  /\ [][state = ERROR => state' \in {ERROR, UPLOAD}]_vars

C3_Witness == state = ERROR /\ analysisProgress = 90 /\ networkCalls = 1

\* C4: a reset from Result or Error yields Upload with progress 0, no result
\* and no message; nothing of an earlier analysis is held in Upload, and the
\* next analysis starts at progress 0.
C4_ResetStep ==
  (state \in {RESULT, ERROR} /\ state' = UPLOAD) =>
    (analysisProgress' = 0 /\ analysisData' = null /\ errorMessage' = <<>>)

C4_ResetClearsEverything ==
  /\ [][C4_ResetStep]_vars
  /\ [](state = UPLOAD =>
          NothingHeld /\ ~RequestPending /\ resultTimers = <<>>
          /\ progressIntervals = 0)
  /\ [][(state = UPLOAD /\ state' = ANALYZING) =>
          (analysisProgress' = 0 /\ analysisData' = null
           /\ errorMessage' = <<>>)]_vars

C4_Witness == state = UPLOAD /\ networkCalls = 1 /\ fuIsProcessing

\* C5: a response with a ratio status or a trend outside its enumeration
\* never reaches Result.
EnumsValid(v) ==
  /\ \A i \in 1..Len(v.ratios) : v.ratios[i].status \in RatioStatus
  /\ \A i \in 1..Len(v.significantChanges) :
       v.significantChanges[i].trend \in ChangeTrend

C5_InvalidEnumNeverResult == state = RESULT => EnumsValid(analysisData)

\* C6: a response whose cleaned text is no JSON makes the analysis fail: the
\* machine goes to Error, no further request is issued, and Result is only
\* ever reached from a text that parses.
C6_BadTextStep ==
  (Len(pendingRequests') < Len(pendingRequests)
   /\ ~JsonParses(cleanText(responseText'))) =>
    /\ state' = ERROR
    /\ pendingRequests' = <<>>
    /\ networkCalls' = networkCalls
    /\ resultTimers' = resultTimers

C6_UnparseableTextFails ==
  /\ [][C6_BadTextStep]_vars
  /\ []((state = RESULT \/ resultTimers # <<>>) =>
          JsonParses(cleanText(responseText)))

C6_Witness ==
  /\ state = ERROR
  /\ Len(responseText) = MaxTextLen
  /\ responseText[1] = FENCE /\ responseText[Len(responseText)] = FENCE
  /\ ~JsonParses(cleanText(responseText))

\* C7: in Result the held value has all five collections.
C7_CollectionsPresentInResult ==
  state = RESULT => (Truthy(analysisData) /\ analysisData.keys = CollectionKeys)

\* C8: without a credential no request is ever issued, and the analysis ends
\* in Error with the fixed missing-credential message, not the prefixed one.
C8_NoCredential ==
  /\ [](CredentialMissing(apiKey) =>
          /\ networkCalls = 0
          /\ pendingRequests = <<>>
          /\ state # RESULT
          /\ resultTimers = <<>>
          /\ state = ERROR =>
               /\ errorMessage = NoApiKeyMessage
               /\ SubSeq(errorMessage, 1, 1) # AnalysisErrorPrefix)
  /\ [][(CredentialMissing(apiKey) /\ state = ANALYZING) =>
          state' = ERROR]_vars

C8_Witness == CredentialMissing(apiKey) /\ state = ERROR

\* C9: at most one analysis is under way at any time; while Analyzing no file
\* can be selected or is on its way, the widget takes one file per visit to
\* Upload, and handleFileUpload is invoked only when nothing is pending.
C9_InFlight == Len(pendingRequests) + Len(rejections) + Len(resultTimers)

C9_Ingesting == Len(fuDelayTimers) + Len(fuReaders) + Len(fuSendTimers)

C9_OneAnalysisAtATime ==
  /\ [](/\ C9_InFlight <= 1
        /\ C9_Ingesting <= 1
        /\ state = ANALYZING => (~FileInputRendered /\ C9_Ingesting = 0)
        /\ C9_InFlight = 1 => state = ANALYZING)
  /\ [][(fuIsProcessing /\ state' = UPLOAD) => fuIsProcessing']_vars
  /\ [][UploadInvoked => (state = UPLOAD /\ C9_InFlight = 0)]_vars

C9_Witness ==
  state = ANALYZING /\ pendingRequests # <<>> /\ analysisProgress = 90

\* C10: the progress timer lives exactly as long as its request is unsettled:
\* none is scheduled in Result, Error or Upload, and once the request has
\* settled the progress no longer moves within that view.
C10_AfterSettle ==
  (~RequestPending /\ state' = state) => analysisProgress' = analysisProgress

C10_TimerCancelledOnSettle ==
  /\ [](progressIntervals = Len(pendingRequests) + Len(rejections))
  /\ [](state \in {RESULT, ERROR, UPLOAD} => progressIntervals = 0)
  /\ [][C10_AfterSettle]_vars

C10_Witness ==
  state = ERROR /\ progressIntervals = 0 /\ analysisProgress \in 2..88


\* C11: a completion never acts on a state reached by a reset.  No request,
\* rejection or delayed Result is outstanding when a reset is taken, every
\* completion happens in Analyzing and is the only one outstanding, and in
\* Upload nothing but a new submission changes the application state.
C11_Completion == RequestSettles \/ Len(resultTimers') < Len(resultTimers)

C11_ResetStep == state \in {RESULT, ERROR} /\ state' = UPLOAD

C11_NoStaleCompletion ==
  /\ [][C11_ResetStep => (C9_InFlight = 0 /\ progressIntervals = 0)]_vars
  /\ [][C11_Completion => (state = ANALYZING /\ C9_InFlight = 1)]_vars
  /\ [][state = UPLOAD => (appVars' = appVars \/ UploadInvoked)]_vars

C11_Witness ==
  state = UPLOAD /\ networkCalls = 1 /\ ~fuIsProcessing /\ C9_InFlight = 0


\* C12: an ingestion failure ends with the widget idle again.  Stated for the
\* moment the ingestion has nothing left to run: in Upload, with no delay,
\* reader or send callback outstanding, the widget is not processing and its
\* progress is 0.
C12_IngestionFailureRecovers ==
  (state = UPLOAD /\ C9_Ingesting = 0) => (~fuIsProcessing /\ fuProgress = 0)

\* C13: when the ingestion of a file fails (the read fails, or the workbook
\* of a tabular file cannot be decoded), onFileUpload is not called for it:
\* nothing is scheduled to be sent, the state stays Upload and no request is
\* issued, then or later.
C13_IngestionFails ==
  /\ fuReaders # <<>>
  /\ Len(fuReaders') < Len(fuReaders)
  /\ \/ ~Head(fuReaders).file.readable
     \/ Head(fuReaders).tabular /\ Head(fuReaders).file.corrupt

C13_FailedIngestion == state = UPLOAD /\ fuIsProcessing /\ C9_Ingesting = 0

C13_NoAnalysisAfterFailedIngestion ==
  /\ [][C13_IngestionFails =>
          (fuSendTimers' = <<>> /\ state' = UPLOAD /\ C13_FailedIngestion'
           /\ UNCHANGED <<appVars, pendingRequests, rejections, networkCalls>>)]_vars
  /\ [][C13_FailedIngestion =>
          (C13_FailedIngestion'
           /\ UNCHANGED <<appVars, pendingRequests, rejections, networkCalls>>)]_vars

C13_Witness == C13_FailedIngestion /\ fuProgress = 90 /\ ~fuIntervalOn

\* C14: in every Result or Error state a reset is on offer.
C14_ResetAlwaysAvailable == state \in {RESULT, ERROR} => ResetAvailable

\* C20: the analysis progress stays in 0..100; while the request is pending
\* it is an even value of at most 90; a tick adds exactly 2 and only below
\* 90; within one analysis it never decreases; and the updater of a tick
\* leaves a progress of 100 at 100.
C20_TickStep ==
  (state = ANALYZING /\ state' = ANALYZING
   /\ analysisProgress' # analysisProgress) =>
    \/ analysisProgress < 90 /\ analysisProgress' = analysisProgress + 2
    \/ ~RequestPending' /\ analysisProgress' = 100

C20_ProgressBounds ==
  /\ [](analysisProgress \in 0..100)
  /\ [](RequestPending =>
          (analysisProgress <= 90 /\ analysisProgress % 2 = 0))
  /\ [](ProgressUpdater(analysisProgress) \in
          {analysisProgress, analysisProgress + 2}
        /\ (analysisProgress >= 90 =>
              ProgressUpdater(analysisProgress) = analysisProgress))
  /\ [][C20_TickStep]_vars
  /\ [][(state = ANALYZING /\ state' = ANALYZING) =>
          analysisProgress' >= analysisProgress]_vars

C20_Witness ==
  state = ANALYZING /\ RequestPending /\ analysisProgress = 88


----------------------------------------------------------------------------
\* The files whose ingestion is under way, with the path chosen for each.
IngestJobs ==
  {fuDelayTimers[i] : i \in 1..Len(fuDelayTimers)}
    \cup {fuReaders[i] : i \in 1..Len(fuReaders)}

\* A reader has delivered and a file is scheduled to be sent.
ReaderDelivers ==
  fuReaders # <<>> /\ Len(fuSendTimers') > Len(fuSendTimers)

\* C15: a file is tabular exactly when its name ends in .xlsx, .xls or .csv,
\* or its content type contains spreadsheet or excel, or is text/csv; every
\* other file is opaque, and exactly one of the two paths runs for a file.
C15_Tabular(file) ==
  \/ /\ file.name # <<>>
     /\ file.name[Len(file.name)] \in {".xlsx", ".xls", ".csv"}
  \/ \E i \in 1..Len(file.type) : file.type[i] \in {"spreadsheet", "excel"}
  \/ file.type = <<"text/csv">>

C15_OnePath ==
  ReaderDelivers =>
    /\ Len(fuSendTimers') = 1
    /\ fuSendTimers'[1].data =
         IF C15_Tabular(Head(fuReaders).file) THEN "csv" ELSE "bytes"

C15_ClassifiedAsStated ==
  /\ [](\A job \in IngestJobs : job.tabular <=> C15_Tabular(job.file))
  /\ [](C9_Ingesting <= 1)
  /\ [][C15_OnePath]_vars

C15_Witness ==
  \E job \in IngestJobs :
    job.tabular /\ job.file.name = <<"report", ".xls">> /\ job.file.type = <<>>

\* C16: the classification depends on the extension alone, compared without
\* regard to case and whatever the content type: a file gets the class of
\* every file with the same extension, report.CSV is tabular and
\* statement.pdf is opaque.
Extension(name) == IF Len(name) >= 2 THEN name[Len(name)] ELSE ""

LowerCase(token) ==
  CASE token = ".CSV" -> ".csv"
    [] token = ".XLSX" -> ".xlsx"
    [] OTHER -> token

SameExtension(f, g) ==
  LowerCase(Extension(f.name)) = LowerCase(Extension(g.name))

C16_StableByExtension ==
  \A job \in IngestJobs :
    /\ \A g \in AllFiles :
         SameExtension(job.file, g) => (job.tabular <=> isSpreadsheet(g))
    /\ job.file.name = <<"report", ".CSV">> => job.tabular
    /\ job.file.name = <<"statement", ".pdf">> => ~job.tabular

\* C17: the MIME type handed to the analysis client is text/csv for a file
\* that took the tabular path, and for a file that took the opaque path its
\* declared type, or text/plain when that is empty.
C17_Expected(job) ==
  IF job.tabular THEN <<"text/csv">>
  ELSE IF job.file.type = <<>> THEN <<"text/plain">> ELSE job.file.type

C17_MimeTypeHandedOver ==
  /\ [][ReaderDelivers =>
          fuSendTimers'[Len(fuSendTimers')].mimeType =
            C17_Expected(Head(fuReaders))]_vars
  /\ [][(UploadInvoked /\ pendingRequests' # pendingRequests) =>
          pendingRequests'[Len(pendingRequests')].mimeType =
            Head(fuSendTimers).mimeType]_vars

C17_Witness ==
  /\ pendingRequests # <<>>
  /\ pendingRequests[1] = [data |-> "bytes", mimeType |-> <<"text/plain">>]


\* C18: for every JSON text t, a response that is t between an opening fence
\* (with or without the json tag) and a closing fence, with whitespace around,
\* is cleaned to what cleaning t alone gives, and parsing gives the same
\* result; a response without a fence is only trimmed.
AllWs(s, a, b) == \A i \in a..b : s[i] = WS

\* The JSON texts t of which w is a wrapping.
WrappedJsonTexts(w) ==
  LET Inner(i, j) ==
        {SubSeq(w, i + 1, j - 1)} \cup
          IF i + 1 < j /\ w[i + 1] = "json"
            THEN {SubSeq(w, i + 2, j - 1)} ELSE {}
      Fenced ==
        {p \in (1..Len(w)) \X (1..Len(w)) :
           /\ p[1] < p[2]
           /\ w[p[1]] = FENCE /\ w[p[2]] = FENCE
           /\ AllWs(w, 1, p[1] - 1) /\ AllWs(w, p[2] + 1, Len(w))}
  IN {t \in UNION {Inner(p[1], p[2]) : p \in Fenced} : JsonParses(t)}

C18_ResponseStep ==
  /\ pendingRequests # <<>>
  /\ Len(pendingRequests') < Len(pendingRequests)
  /\ responseText' # <<>>

C18_Cleaned ==
  LET w == responseText' IN
    /\ \A t \in WrappedJsonTexts(w) :
           /\ cleanText(w) = cleanText(t)
           /\ \A value \in ValuesOf(t) :
                HandleResponse(w, value) = HandleResponse(t, value)
           /\ Len(resultTimers') = Len(resultTimers) + 1
           /\ state' = ANALYZING
    /\ (\A i \in 1..Len(w) : w[i] # FENCE) => cleanText(w) = Trim(w)

C18_FencesStripped == [][C18_ResponseStep => C18_Cleaned]_vars

C18_Witness ==
  /\ responseText = <<FENCE, "json", "V", WS, FENCE>>
  /\ state = RESULT
  /\ analysisData # null


\* C19: an entry whose relatedDepartment is absent counts as department
\* General for the filter: with General selected, the filtered list holds
\* every entry without a relatedDepartment and every entry tagged General,
\* and the stored result keeps the field absent where it was absent.
C19_CountsAsGeneral(item) == DepartmentLabel(item) = "General"

C19_MissingDepartmentIsGeneral ==
  (DashboardMounted /\ selectedDept = "General") =>
    LET shown == filteredChanges(analysisData, selectedDept) IN
      /\ shown = SelectSeq(analysisData.significantChanges, C19_CountsAsGeneral)
      /\ \A i \in 1..Len(shown) :
           \E j \in 1..Len(analysisData.significantChanges) :
             shown[i] = analysisData.significantChanges[j]


\* C21: every failure of an issued request (transport failure, empty response
\* text, parse failure) reaches the Error state with the analysis-error
\* prefix followed by the underlying message, and that message stays on
\* display while in Error; an empty response text never yields a Result.
C21_RequestAnswered == Len(pendingRequests') < Len(pendingRequests)

C21_FailureStep ==
  C21_RequestAnswered /\ Len(resultTimers') = Len(resultTimers)

C21_Underlying ==
  IF responseText' # <<>>
    THEN {SyntaxErrorMessage}
    ELSE {NoResponseMessage} \cup {error.message : error \in TransportErrors}

C21_FailuresRethrown ==
  /\ [][C21_FailureStep =>
          /\ state' = ERROR
          /\ \E m \in C21_Underlying :
               errorMessage' = AnalysisErrorPrefix \o m]_vars
  /\ [][(C21_RequestAnswered /\ Len(resultTimers') > Len(resultTimers)) =>
          responseText' # <<>>]_vars
  /\ [][(state = ERROR /\ state' = ERROR) =>
          errorMessage' = errorMessage]_vars
  /\ []((state = ERROR /\ networkCalls = 1) =>
          SubSeq(errorMessage, 1, Len(AnalysisErrorPrefix))
            = AnalysisErrorPrefix)

C21_Witness ==
  state = ERROR /\ errorMessage = AnalysisErrorPrefix \o NoResponseMessage


\* C22: the held data matches the state tag: a result is held only in Result,
\* a message only in Error, neither in Upload and Analyzing, and never both.
C22_DataMatchesTag ==
  /\ analysisData # null => state = RESULT
  /\ errorMessage # <<>> => state = ERROR
  /\ state \in {UPLOAD, ANALYZING} =>
       (analysisData = null /\ errorMessage = <<>>)
  /\ ~(analysisData # null /\ errorMessage # <<>>)

C22_Witness ==
  /\ state = ANALYZING
  /\ networkCalls = 1
  /\ fuSendTimers = <<>>
  /\ analysisData = null /\ errorMessage = <<>>
  /\ analysisProgress = 90
  /\ resultTimers = <<>> /\ pendingRequests # <<>>
  /\ fuProgress = 0


\* C23: an analysis whose request has settled leaves Analyzing: after a
\* success (Analyzing with nothing pending) Result follows, a failure leads to
\* Error; while the request is pending the state is Analyzing, and if the
\* request never settles the progress ends up fixed at 90.
C23_SettledOk == state = ANALYZING /\ ~RequestPending

C23_Stuck == state = ANALYZING /\ pendingRequests # <<>>

C23_LeavesAnalyzing ==
  /\ C23_SettledOk ~> (state = RESULT)
  /\ (rejections # <<>>) ~> (state = ERROR)
  /\ [][(RequestSettles /\ Len(resultTimers') = Len(resultTimers)) =>
          state' = ERROR]_vars
  /\ [](RequestPending => state = ANALYZING)
  /\ (<>[]C23_Stuck) => <>[](C23_Stuck /\ analysisProgress = 90)

C23_Witness ==
  C23_Stuck /\ analysisProgress = 90 /\ ~ENABLED AnalysisProgressTick


\* C24: the ingestion progress of the widget stays in 0..100 and, from the
\* moment the file has been read (progress set to 100, the send scheduled)
\* until onFileUpload is called, it is 100, whatever the interleaving of the
\* interval tick with the read-completion callback.
C24_ProgressHoldsAt100 ==
  /\ fuProgress \in 0..100
  /\ fuSendTimers # <<>> => fuProgress = 100

====
